---- MODULE Spec2Model ----
(***************************************************************************)
(* A model of the FMAPI file storage service: the users table, the files   *)
(* table (Metadata Catalog), the storage directory (Content Store) and the *)
(* request handlers of src/files/router.py and src/auth/router.py.         *)
(*                                                                         *)
(* A handler whose body awaits the catalog between a read and its writes   *)
(* is two actions (the part up to the read, the part after it), so that    *)
(* other requests interleave where the event loop lets them.  The clock    *)
(* counts minutes.                                                         *)
(***************************************************************************)
EXTENDS Integers, Sequences, FiniteSets, TLC

VARIABLES app, users, tokens, now, files, nextId, store, uuids, req, resp

vars == <<app, users, tokens, now, files, nextId, store, uuids, req, resp>>

-----------------------------------------------------------------------------
(* Bounds of the model *)

\* the clock stops at MaxTime minutes
MaxTime == 7
\* rows ever inserted into the files table
MaxId == 3
\* names uuid4 hands out to uploads
MaxUuid == 2

-----------------------------------------------------------------------------
(* Program constants *)

\* timedelta(minutes=5)
ADMIN_ACTIVITY_TIMEOUT == 5
\* 100 * 1024 * 1024
MAX_FILE_SIZE == 104857600

-----------------------------------------------------------------------------
(* The values requests and the file system are drawn from *)

Usernames == {"root", "bob"}
Roles == {"user", "admin"}
Clients == {1, 2}

\* NULL in an integer column / a timestamp column
NoId == 0
NoTime == -1

\* A blob of MAX_FILE_SIZE + 1 zero bytes and a blob of exactly MAX_FILE_SIZE
\* zero bytes are named, not spelled out; every other blob is its text.
BigBlob == "<104857601 zero bytes>"
MaxBlob == "<104857600 zero bytes>"
SmallBlobs == {"abc", "xy"}
Blobs == SmallBlobs \cup {BigBlob, MaxBlob}

\* len(contents), stat().st_size
BlobSize(b) ==
    CASE b = BigBlob -> MAX_FILE_SIZE + 1
      [] b = MaxBlob -> MAX_FILE_SIZE
      [] OTHER -> Len(b)

\* Relative paths under STORAGE_DIR.  "a5e54d1f" is the first 8 hex digits
\* of md5("a.txt"): a file may carry such a name.
StoragePaths == {"a.txt", "a5e54d1f", "docs/c.txt"}
\* what str(uuid.uuid4()) returns, call after call: never the same value twice
UuidStems == <<"00000000-0000-4000-8000-000000000001",
               "00000000-0000-4000-8000-000000000002",
               "00000000-0000-4000-8000-000000000003">>
UuidPaths == {UuidStems[i] \o ".txt" : i \in 1..Len(UuidStems)}
\* A path a caller may send that leads out of STORAGE_DIR: the handlers join
\* it to STORAGE_DIR as it is, so it names the file secret.txt next to the
\* storage directory
OutsidePaths == {"../secret.txt"}
\* every path the model follows from STORAGE_DIR
Paths == StoragePaths \cup UuidPaths \cup OutsidePaths

\* the path leaves the storage directory: it climbs with a leading ".." or
\* is absolute (STORAGE_DIR / "/x" is "/x")
EscapesRoot(p) ==
    \/ Len(p) >= 3 /\ SubSeq(p, 1, 3) = "../"
    \/ Len(p) >= 1 /\ SubSeq(p, 1, 1) = "/"

\* hashlib.md5(s).hexdigest(), tabulated for the strings of the model
md5hex(s) ==
    CASE s = "a.txt" -> "a5e54d1fd7bb69a228ef0dcd2431367e"
      [] s = "a5e54d1f" -> "825b4168e99d82051d685a1b09139497"
      [] s = "docs/c.txt" -> "5000bfdc51e80018fb2fc49bc05f2cf9"
      [] s = "../secret.txt" -> "d5c1457764198da9a0d521e3a441a7e8"
      [] s = "abc" -> "900150983cd24fb0d6963f7d28e17f72"
      [] s = "xy" -> "3e44107170a520582ade522fa73c1d15"
      [] s = BigBlob -> "25bf561e356f15310fd4a68c90cc0fcb"
      [] s = MaxBlob -> "2f282b84e7e608d5852449ed940bfc51"
      [] s = UuidStems[1] \o ".txt" -> "09d2acc8f5ea07638c9ed457557a1010"
      [] s = UuidStems[2] \o ".txt" -> "e593e6b5914fe577f39b82c85e6b04ac"
      [] s = UuidStems[3] \o ".txt" -> "cbfce8288e55a14dadbc94d5917c8eb8"

\* Path(p).name: the last component of a path
BaseName(p) ==
    CASE p = "docs/c.txt" -> "c.txt"
      [] p = "../secret.txt" -> "secret.txt"
      [] OTHER -> p

-----------------------------------------------------------------------------
(* The tables and the storage directory *)

\* a row of the users table; last_active is NoTime when NULL
NoUser == [id |-> NoId, role |-> "none", last_active |-> NoTime]
UserExists(u) == users[u].id # NoId

\* a file reached from STORAGE_DIR by a relative path: its bytes and st_mtime
Absent == [content |-> "", mtime |-> NoTime]
Exists(st, p) == p \in DOMAIN st /\ st[p] # Absent
\* STORAGE_DIR.rglob("*") filtered by is_file(), as relative paths
StoredPaths(st) == {p \in DOMAIN st : ~EscapesRoot(p) /\ st[p] # Absent}

\* hash_file: the MD5 of a stored file's bytes
hash_file(st, p) == md5hex(st[p].content)

\* generate_file_id: "temp_" and the first 8 hex digits of the path's MD5
generate_file_id(path) == "temp_" \o SubSeq(md5hex(path), 1, 8)

\* select(FileModel.path): the paths of the catalog
CatalogPaths(fs) == {f.path : f \in fs}
\* select(FileModel).where(FileModel.path == path)
RowsWithPath(fs, path) == {f \in fs : f.path = path}
\* select(FileModel).where(FileModel.id == id)
RowsWithId(fs, id) == {f \in fs : f.id = id}

\* a FileModel row (created_at, which no handler reads, is left out)
FileRow(id, filename, path, size, modified, owner, hash) ==
    [id |-> id, filename |-> filename, path |-> path, size |-> size,
     modified |-> modified, owner_id |-> owner, hash |-> hash]

\* no request of the client is between its two steps
Idle == [op |-> "idle"]

\* the orderings of a finite set, as sequences without repetition
Orderings(S) ==
    {q \in [1..Cardinality(S) -> S] : \A i, j \in 1..Cardinality(S) : q[i] = q[j] => i = j}

-----------------------------------------------------------------------------
(* src/main.py: the application and its lifespan *)

\* the application between its start and the end of the startup half of
\* lifespan; once that has run to the yield the server takes requests, once
\* it has raised the server gives up ("Application startup failed")
Starting == [state |-> "starting", cache |-> FALSE]
Failed(step) == [state |-> "failed", cache |-> FALSE, raised_by |-> step]
Serving == [state |-> "running", cache |-> TRUE]

\* what the startup half of lifespan leads to: create_all must succeed; a
\* ping that raises is logged and raised again, a ping answered falsely
\* leaves the cache uninitialised
LifespanOutcome(dbUp, ping) ==
    IF ~dbUp THEN Failed("create_all")
    ELSE IF ping = "error" THEN Failed("ping")
    ELSE [state |-> "running", cache |-> (ping = "pong")]

\* lifespan up to the yield
Lifespan(dbUp, ping) ==
    /\ app = Starting
    /\ app' = LifespanOutcome(dbUp, ping)
    /\ UNCHANGED <<users, tokens, now, files, nextId, store, uuids, req, resp>>

-----------------------------------------------------------------------------
(* Initial states *)

\* the service started with its cache, before any request: empty tables,
\* empty storage directory
Init ==
    /\ app = Serving
    /\ users = [u \in Usernames |-> NoUser]
    /\ tokens = {}
    /\ now = 0
    /\ files = {}
    /\ nextId = 1
    /\ store = [p \in Paths |-> Absent]
    /\ uuids = 0
    /\ req = [c \in Clients |-> Idle]
    /\ resp = [op |-> "none", status |-> 0]

\* the service deployed and not yet started
Deployed ==
    /\ app = Starting
    /\ users = [u \in Usernames |-> NoUser]
    /\ tokens = {}
    /\ now = 0
    /\ files = {}
    /\ nextId = 1
    /\ store = [p \in Paths |-> Absent]
    /\ uuids = 0
    /\ req = [c \in Clients |-> Idle]
    /\ resp = [op |-> "none", status |-> 0]

-----------------------------------------------------------------------------
(* src/auth: accounts, login, roles *)

\* get_current_user: the bearer token names a user that exists
Authenticated(u) == u \in tokens /\ UserExists(u)

\* (mutant) no role check
IsAdminAlways(u) == TRUE

\* get_current_admin: the role stored for the user at request time
IsAdmin(u) == users[u].role = "admin"

\* POST /auth/register
RegisterUser(u, role, secretOk) ==
    /\ IF UserExists(u) \/ role \notin {"user", "admin"}
       THEN /\ resp' = [op |-> "auth_register", status |-> 400]
            /\ UNCHANGED users
       ELSE IF role = "admin" /\ ~secretOk
       THEN /\ resp' = [op |-> "auth_register", status |-> 403]
            /\ UNCHANGED users
       ELSE /\ users' = [users EXCEPT ![u] =
                   [id |-> Cardinality({v \in Usernames : UserExists(v)}) + 1,
                    role |-> role,
                    last_active |-> IF role = "admin" THEN now ELSE NoTime]]
            /\ resp' = [op |-> "auth_register", status |-> 201]
    /\ UNCHANGED <<app, tokens, now, files, nextId, store, uuids, req>>

\* (mutant) a login that issues the token and leaves last_active alone
LoginNoHeartbeat(u, passwordOk) ==
    /\ IF ~UserExists(u) \/ ~passwordOk
       THEN /\ resp' = [op |-> "login", status |-> 401]
            /\ UNCHANGED tokens
       ELSE /\ tokens' = tokens \cup {u}
            /\ resp' = [op |-> "login", status |-> 200, user |-> u, role |-> users[u].role]
    /\ UNCHANGED <<app, users, now, files, nextId, store, uuids, req>>

\* POST /auth/token
Login(u, passwordOk) ==
    /\ IF ~UserExists(u) \/ ~passwordOk
       THEN /\ resp' = [op |-> "login", status |-> 401]
            /\ UNCHANGED <<users, tokens>>
       ELSE /\ users' = [users EXCEPT ![u].last_active = now]
            /\ tokens' = tokens \cup {u}
            /\ resp' = [op |-> "login", status |-> 200, user |-> u, role |-> users[u].role]
    /\ UNCHANGED <<app, now, files, nextId, store, uuids, req>>

\* POST /auth/change-role
ChangeRole(u, target, newRole) ==
    /\ Authenticated(u)
    /\ IF ~IsAdmin(u)
       THEN /\ resp' = [op |-> "change_role", status |-> 403]
            /\ UNCHANGED users
       ELSE IF ~UserExists(target)
       THEN /\ resp' = [op |-> "change_role", status |-> 404]
            /\ UNCHANGED users
       ELSE /\ users' = [users EXCEPT ![target].role = newRole]
            /\ resp' = [op |-> "change_role", status |-> 200]
    /\ UNCHANGED <<app, tokens, now, files, nextId, store, uuids, req>>

\* is_admin_active: some admin's last_active lies within the window ending at t
is_admin_active(us, t) ==
    \E u \in Usernames :
        /\ us[u].role = "admin"
        /\ us[u].last_active # NoTime
        /\ us[u].last_active >= t - ADMIN_ACTIVITY_TIMEOUT

\* a minute passes
Tick ==
    /\ now < MaxTime
    /\ now' = now + 1
    /\ UNCHANGED <<app, users, tokens, files, nextId, store, uuids, req, resp>>

-----------------------------------------------------------------------------
(* The storage directory changed from outside the service *)

\* a file is put under STORAGE_DIR by hand
ExtPut(p, b) ==
    /\ ~Exists(store, p)
    /\ store' = [store EXCEPT ![p] = [content |-> b, mtime |-> now]]
    /\ UNCHANGED <<app, users, tokens, now, files, nextId, uuids, req, resp>>

\* a file is removed from STORAGE_DIR by hand
ExtDelete(p) ==
    /\ Exists(store, p)
    /\ store' = [store EXCEPT ![p] = Absent]
    /\ UNCHANGED <<app, users, tokens, now, files, nextId, uuids, req, resp>>

-----------------------------------------------------------------------------
(* GET /files/ : the merged listing *)

\* (mutant) the temporary id carries the path itself, not its digest
StorageEntryPlainId(st, p) ==
    [id |-> "temp_" \o p, name |-> BaseName(p), path |-> p,
     size |-> BlobSize(st[p].content), modified |-> st[p].mtime,
     owner_id |-> NoId, source |-> "storage"]

\* the entry list_files builds for a file found by walking the storage directory
StorageEntry(st, p) ==
    [id |-> generate_file_id(p), name |-> BaseName(p), path |-> p,
     size |-> BlobSize(st[p].content), modified |-> st[p].mtime,
     owner_id |-> NoId, source |-> "storage"]

\* the entry list_files builds for a catalog row whose file exists
DatabaseEntry(st, f) ==
    [id |-> f.id, name |-> f.filename, path |-> f.path,
     size |-> BlobSize(st[f.path].content), modified |-> st[f.path].mtime,
     owner_id |-> f.owner_id, source |-> "database"]

\* all_files: the storage entries in the order of the walk (when the admin
\* gate is open), then the entries of the catalog rows in the order the
\* select returned them, the rows whose file is missing skipped
RECURSIVE StorageEntries(_, _)
StorageEntries(st, walk) ==
    IF walk = <<>> THEN <<>>
    ELSE <<StorageEntry(st, Head(walk))>> \o StorageEntries(st, Tail(walk))

\* (mutant) every row listed, its file present or not
RECURSIVE DatabaseEntriesNoCheck(_, _)
DatabaseEntriesNoCheck(st, rows) ==
    IF rows = <<>> THEN <<>>
    ELSE <<DatabaseEntry(st, Head(rows))>> \o DatabaseEntriesNoCheck(st, Tail(rows))

RECURSIVE DatabaseEntries(_, _)
DatabaseEntries(st, rows) ==
    IF rows = <<>> THEN <<>>
    ELSE (IF Exists(st, Head(rows).path) THEN <<DatabaseEntry(st, Head(rows))>> ELSE <<>>)
         \o DatabaseEntries(st, Tail(rows))

AllFiles(admin_active, st, walk, rows) ==
    (IF admin_active THEN StorageEntries(st, walk) ELSE <<>>) \o DatabaseEntries(st, rows)

\* (mutant) the first entry of a path is kept, whatever its source
OverridesNever(file) == FALSE

\* the test that lets an entry take the place of the one kept for its path
Overrides(file) == file.source = "database"

\* unique_files: a dict keyed by path, in the order the keys were first set
RECURSIVE UniqueInto(_, _)
UniqueInto(acc, all) ==
    IF all = <<>> THEN acc
    ELSE LET file == Head(all)
             at == {i \in 1..Len(acc) : acc[i].path = file.path}
         IN IF at = {}
            THEN UniqueInto(Append(acc, file), Tail(all))
            ELSE IF Overrides(file)
            THEN UniqueInto([i \in 1..Len(acc) |-> IF i \in at THEN file ELSE acc[i]], Tail(all))
            ELSE UniqueInto(acc, Tail(all))

UniqueFiles(all) == UniqueInto(<<>>, all)

\* sorted(..., key=modified, reverse=True): stable, equal keys keep their order
RECURSIVE InsertByModified(_, _)
InsertByModified(sorted, file) ==
    IF sorted = <<>> THEN <<file>>
    ELSE IF Head(sorted).modified >= file.modified
    THEN <<Head(sorted)>> \o InsertByModified(Tail(sorted), file)
    ELSE <<file>> \o sorted

RECURSIVE SortedFiles(_)
SortedFiles(unique) ==
    IF unique = <<>> THEN <<>>
    ELSE InsertByModified(SortedFiles(SubSeq(unique, 1, Len(unique) - 1)), unique[Len(unique)])

\* a Python slice bound: negative counts from the end, then clipped to [0, n]
SliceBound(i, n) ==
    IF i < 0 THEN (IF i + n < 0 THEN 0 ELSE i + n) ELSE (IF i > n THEN n ELSE i)

\* seq[a:b]
PySlice(seq, a, b) ==
    SubSeq(seq, SliceBound(a, Len(seq)) + 1, SliceBound(b, Len(seq)))

\* the body list_files returns, for the walk order and the row order given
ListBody(us, fs_rows, st, t, walk, skip, limit) ==
    LET admin_active == is_admin_active(us, t)
        unique == UniqueFiles(AllFiles(admin_active, st, walk, fs_rows))
    IN [op |-> "list", status |-> 200,
        items |-> PySlice(SortedFiles(unique), skip, skip + limit),
        total |-> Len(unique), skip |-> skip, limit |-> limit,
        has_more |-> (skip + limit) < Len(unique),
        admin_active |-> admin_active]

\* GET /files/
ListFiles(u, skip, limit) ==
    /\ Authenticated(u)
    /\ \E walk \in Orderings(StoredPaths(store)), rows \in Orderings(files) :
           resp' = ListBody(users, rows, store, now, walk, skip, limit)
    /\ UNCHANGED <<app, users, tokens, now, files, nextId, store, uuids, req>>

-----------------------------------------------------------------------------
(* GET /files/download/{file_id} *)

IsDigits(s) == s # "" /\ \A i \in 1..Len(s) : SubSeq(s, i, i) \in {"0","1","2","3","4","5","6","7","8","9"}

\* int(file_id) for the identifiers of the model: decimal digits only
RECURSIVE ParseInt(_)
ParseInt(s) ==
    IF s = "" THEN 0
    ELSE LET d == SubSeq(s, Len(s), Len(s))
             v == CASE d = "0" -> 0 [] d = "1" -> 1 [] d = "2" -> 2 [] d = "3" -> 3
                    [] d = "4" -> 4 [] d = "5" -> 5 [] d = "6" -> 6 [] d = "7" -> 7
                    [] d = "8" -> 8 [] d = "9" -> 9
         IN 10 * ParseInt(SubSeq(s, 1, Len(s) - 1)) + v

\* file_id.startswith("temp_")
StartsWithTemp(file_id) == Len(file_id) >= 5 /\ SubSeq(file_id, 1, 5) = "temp_"

\* the path a temporary id is resolved to: file_id[5:]
TempPath(file_id) == SubSeq(file_id, 6, Len(file_id))

\* the error raised when no row has the id
NotInDatabase == [op |-> "download", status |-> 404, detail |-> "File not found in database"]

\* (mutant) a row whose file is missing reported as if no row had the id
MissingInStorageAsNotFound == NotInDatabase

\* the error raised when the row exists and its file does not
MissingInStorage ==
    [op |-> "download", status |-> 404,
     detail |-> "File exists in database but missing in storage"]

\* the response of download_file: the file served, or the error
DownloadBody(fs, st, file_id) ==
    IF StartsWithTemp(file_id)
    THEN IF ~Exists(st, TempPath(file_id))
         THEN [op |-> "download", status |-> 404, detail |-> "File not found in storage"]
         ELSE [op |-> "download", status |-> 200, served |-> TempPath(file_id),
               content |-> st[TempPath(file_id)].content, filename |-> BaseName(TempPath(file_id))]
    ELSE IF ~IsDigits(file_id)
    THEN [op |-> "download", status |-> 400, detail |-> "Invalid file ID format"]
    ELSE IF RowsWithId(fs, ParseInt(file_id)) = {}
    THEN NotInDatabase
    ELSE LET file == CHOOSE f \in RowsWithId(fs, ParseInt(file_id)) : TRUE
         IN IF ~Exists(st, file.path)
            THEN MissingInStorage
            ELSE [op |-> "download", status |-> 200, served |-> file.path,
                  content |-> st[file.path].content, filename |-> file.filename]

\* GET /files/download/{file_id}
DownloadFile(u, file_id) ==
    /\ Authenticated(u)
    /\ resp' = DownloadBody(files, store, file_id)
    /\ UNCHANGED <<app, users, tokens, now, files, nextId, store, uuids, req>>

-----------------------------------------------------------------------------
(* GET /files/download-multiple *)

\* a query parameter of the List[str] file_ids: a Python str
StrKey(file_id) == [type |-> "str", value |-> file_id]

\* db.get(FileModel, key) binds the key to the integer primary key: the
\* asyncpg driver of DATABASE_URL encodes the parameter as int4 and refuses
\* a value that is not an int, so the statement raises for a str
KeyBinds(key) == key.type = "int"

\* what one identifier adds to the archive: the entries written for it
ArchiveEntry(fs, st, file_id) ==
    IF StartsWithTemp(file_id)
    THEN IF Exists(st, TempPath(file_id))
         THEN <<[name |-> BaseName(TempPath(file_id)), path |-> TempPath(file_id),
                 content |-> st[TempPath(file_id)].content]>>
         ELSE <<>>
    ELSE LET key == StrKey(file_id)
             found == IF KeyBinds(key) THEN RowsWithId(fs, key.value) ELSE {}
         IN IF found = {} THEN <<>>
            ELSE LET file == CHOOSE f \in found : TRUE
                 IN IF Exists(st, file.path)
                    THEN <<[name |-> file.filename, path |-> file.path,
                            content |-> st[file.path].content]>>
                    ELSE <<>>

\* the loop over file_ids; an exception anywhere in it ends the request
RECURSIVE ArchiveEntries(_, _, _)
ArchiveEntries(fs, st, file_ids) ==
    IF file_ids = <<>> THEN <<>>
    ELSE ArchiveEntry(fs, st, Head(file_ids)) \o ArchiveEntries(fs, st, Tail(file_ids))

ArchiveRaises(file_ids) ==
    \E i \in 1..Len(file_ids) :
        ~StartsWithTemp(file_ids[i]) /\ ~KeyBinds(StrKey(file_ids[i]))

\* the response of download_multiple_files: the archive, or the 500 every
\* exception is turned into
ArchiveBody(fs, st, file_ids) ==
    IF ArchiveRaises(file_ids)
    THEN [op |-> "archive", status |-> 500, detail |-> "Archive creation failed"]
    ELSE [op |-> "archive", status |-> 200, entries |-> ArchiveEntries(fs, st, file_ids)]

\* GET /files/download-multiple
DownloadMultiple(u, file_ids) ==
    /\ Authenticated(u)
    /\ resp' = ArchiveBody(files, store, file_ids)
    /\ UNCHANGED <<app, users, tokens, now, files, nextId, store, uuids, req>>

-----------------------------------------------------------------------------
(* POST /files/upload *)

\* Path(filename).suffix: from the last dot of the name, a leading dot apart
RECURSIVE LastDot(_, _)
LastDot(name, i) ==
    IF i <= 1 THEN 0
    ELSE IF SubSeq(name, i, i) = "." THEN i ELSE LastDot(name, i - 1)

Suffix(filename) ==
    IF LastDot(filename, Len(filename)) = 0 THEN ""
    ELSE SubSeq(filename, LastDot(filename, Len(filename)), Len(filename))

\* (mutant) no size check
TooLargeNever(blob) == FALSE

\* the size check that refuses an upload
TooLarge(blob) == BlobSize(blob) > MAX_FILE_SIZE

\* (mutant) a failed commit that leaves the pending row in the table
RolledBackKeepsRow(fs, row) == fs \cup {row}

\* await db.rollback(): the row added to the session is discarded
RolledBack(fs, row) == fs

\* POST /files/upload: the size check, the blob written under a fresh name,
\* then the row inserted; a failed commit leaves the blob behind
UploadFile(u, filename, blob, dbOk) ==
    /\ Authenticated(u)
    /\ IF TooLarge(blob)
       THEN /\ resp' = [op |-> "upload", status |-> 413]
            /\ UNCHANGED <<files, nextId, store, uuids>>
       ELSE LET unique_name == UuidStems[uuids + 1] \o Suffix(filename)
            IN /\ uuids < MaxUuid
               /\ nextId <= MaxId
               /\ uuids' = uuids + 1
               /\ store' = [store EXCEPT ![unique_name] = [content |-> blob, mtime |-> now]]
               /\ IF dbOk
                  THEN /\ files' = files \cup
                              {FileRow(nextId, filename, unique_name, BlobSize(blob), now,
                                       users[u].id, md5hex(blob))}
                       /\ nextId' = nextId + 1
                       /\ resp' = [op |-> "upload", status |-> 200, id |-> nextId,
                                   path |-> unique_name, size |-> BlobSize(blob)]
                  ELSE /\ files' = RolledBack(files,
                                     FileRow(nextId, filename, unique_name, BlobSize(blob), now,
                                             users[u].id, md5hex(blob)))
                       /\ resp' = [op |-> "upload", status |-> 500]
                       /\ UNCHANGED nextId
    /\ UNCHANGED <<app, users, tokens, now, req>>

-----------------------------------------------------------------------------
(* POST /files/register *)

\* up to the select: the file must exist, the path must have no row
RegisterBegin(c, u, path, filename) ==
    /\ req[c] = Idle
    /\ Authenticated(u)
    /\ IF ~Exists(store, path)
       THEN /\ resp' = [op |-> "register", status |-> 404]
            /\ UNCHANGED req
       ELSE IF RowsWithPath(files, path) # {}
       THEN /\ resp' = [op |-> "register", status |-> 400]
            /\ UNCHANGED req
       ELSE /\ req' = [req EXCEPT ![c] = [op |-> "register", path |-> path,
                                          filename |-> filename, owner |-> users[u].id]]
            /\ UNCHANGED resp
    /\ UNCHANGED <<app, users, tokens, now, files, nextId, store, uuids>>

\* (mutant) the row added without its owner
RegisterRowNoOwner(st, r, id) ==
    FileRow(id, IF r.filename = "" THEN BaseName(r.path) ELSE r.filename, r.path,
            BlobSize(st[r.path].content), st[r.path].mtime, NoId, hash_file(st, r.path))

\* the row register_file adds: size, mtime and hash read from the live file
RegisterRow(st, r, id) ==
    FileRow(id, IF r.filename = "" THEN BaseName(r.path) ELSE r.filename, r.path,
            BlobSize(st[r.path].content), st[r.path].mtime, r.owner, hash_file(st, r.path))

\* the rows of the table after register_file commits its row
RegisterInsert(fs, row) == fs \cup {row}

\* stat, hash, insert, commit; every exception but HTTPException becomes a 500
RegisterFinish(c, dbOk) ==
    /\ req[c].op = "register"
    /\ req' = [req EXCEPT ![c] = Idle]
    /\ IF ~Exists(store, req[c].path) \/ ~dbOk
       THEN /\ resp' = [op |-> "register", status |-> 500]
            /\ UNCHANGED <<files, nextId>>
       ELSE /\ nextId <= MaxId
            /\ files' = RegisterInsert(files, RegisterRow(store, req[c], nextId))
            /\ nextId' = nextId + 1
            /\ resp' = [op |-> "register", status |-> 200, id |-> nextId, path |-> req[c].path]
    /\ UNCHANGED <<app, users, tokens, now, store, uuids>>

-----------------------------------------------------------------------------
(* POST /files/register-all *)

\* up to the select of the registered paths
RegisterAllBegin(c, u) ==
    /\ req[c] = Idle
    /\ Authenticated(u)
    /\ IF ~IsAdmin(u)
       THEN /\ resp' = [op |-> "register_all", status |-> 403]
            /\ UNCHANGED req
       ELSE /\ req' = [req EXCEPT ![c] = [op |-> "register_all",
                                          registered |-> CatalogPaths(files),
                                          owner |-> users[u].id]]
            /\ UNCHANGED resp
    /\ UNCHANGED <<app, users, tokens, now, files, nextId, store, uuids>>

\* (mutant) every file of the walk is registered, the registered paths ignored
UnregisteredAll(registered, walk) == walk

\* the files of the walk that register_all_files turns into rows
Unregistered(registered, walk) == SelectSeq(walk, LAMBDA p : p \notin registered)

\* the rows added for the unregistered files, ids in the order of the walk
NewRows(st, new, owner, firstId) ==
    {FileRow(firstId + i - 1, BaseName(new[i]), new[i], BlobSize(st[new[i]].content),
             st[new[i]].mtime, owner, hash_file(st, new[i])) : i \in 1..Len(new)}

\* new_files: path and db_file.id as read before the flush (None)
NewFilesBody(new) == [i \in 1..Len(new) |-> [path |-> new[i], id |-> NoId]]

\* the table after the commit of register_all_files
RegisterAllAdds(fs, st, new, owner, firstId) == fs \cup NewRows(st, new, owner, firstId)

\* the walk, the rows added, one commit
RegisterAllFinish(c, dbOk) ==
    /\ req[c].op = "register_all"
    /\ req' = [req EXCEPT ![c] = Idle]
    /\ \E walk \in Orderings(StoredPaths(store)) :
         LET new == Unregistered(req[c].registered, walk)
         IN IF ~dbOk
            THEN /\ resp' = [op |-> "register_all", status |-> 500]
                 /\ UNCHANGED <<files, nextId>>
            ELSE /\ nextId + Len(new) - 1 <= MaxId
                 /\ files' = RegisterAllAdds(files, store, new, req[c].owner, nextId)
                 /\ nextId' = nextId + Len(new)
                 /\ resp' = [op |-> "register_all", status |-> 200, count |-> Len(new),
                             files |-> NewFilesBody(new)]
    /\ UNCHANGED <<app, users, tokens, now, store, uuids>>

-----------------------------------------------------------------------------
(* POST /files/admin/sync-file *)

\* existing.scalars().first(): a row of the path, or none
NoRow == FileRow(NoId, "", "", 0, NoTime, NoId, "")
FirstWithPath(fs, path) == IF RowsWithPath(fs, path) = {} THEN {NoRow} ELSE RowsWithPath(fs, path)

\* (mutant) the compare with its test inverted: equal hash and size update
SyncDecisionInverted(existing_file, hash, size) ==
    IF existing_file # NoRow
    THEN IF existing_file.hash = hash /\ existing_file.size = size THEN "updated" ELSE "skipped"
    ELSE "added"

\* the three-way compare of sync_file
SyncDecision(existing_file, hash, size) ==
    IF existing_file # NoRow
    THEN IF existing_file.hash # hash \/ existing_file.size # size THEN "updated" ELSE "skipped"
    ELSE "added"

\* up to the compare: a matching row is answered at once, nothing written
SyncBegin(c, u, in) ==
    /\ req[c] = Idle
    /\ Authenticated(u)
    /\ IF ~IsAdmin(u)
       THEN /\ resp' = [op |-> "sync", status |-> 403]
            /\ UNCHANGED req
       ELSE \E existing_file \in FirstWithPath(files, in.path) :
              IF SyncDecision(existing_file, in.hash, in.size) = "skipped"
              THEN /\ resp' = [op |-> "sync", status |-> 200, result |-> "skipped",
                               id |-> existing_file.id]
                   /\ UNCHANGED req
              ELSE /\ req' = [req EXCEPT ![c] = [op |-> "sync", in |-> in,
                                                 existing |-> existing_file.id,
                                                 owner |-> users[u].id]]
                   /\ UNCHANGED resp
    /\ UNCHANGED <<app, users, tokens, now, files, nextId, store, uuids>>

\* the row sync_file inserts: size and hash as the caller gave them
SyncRow(r, id) ==
    FileRow(id, r.in.filename, r.in.path, r.in.size, r.in.modified, r.owner, r.in.hash)

\* (mutant) the update that leaves the row's hash and modified time as they were
SyncUpdatedSizeOnly(f, in) == [f EXCEPT !.size = in.size]

\* the row sync_file updates, with the caller's size, hash and modified
SyncUpdated(f, in) == [f EXCEPT !.size = in.size, !.hash = in.hash, !.modified = in.modified]

\* the blob written, then the row updated or inserted and the commit; an
\* exception (the commit failing, the row gone) becomes a 500 after the write
SyncFinish(c, dbOk) ==
    /\ req[c].op = "sync"
    /\ req' = [req EXCEPT ![c] = Idle]
    /\ store' = [store EXCEPT ![req[c].in.path] = [content |-> req[c].in.blob, mtime |-> now]]
    /\ IF req[c].existing # NoId
       THEN IF RowsWithId(files, req[c].existing) = {} \/ ~dbOk
            THEN /\ resp' = [op |-> "sync", status |-> 500]
                 /\ UNCHANGED <<files, nextId>>
            ELSE /\ files' = {IF f.id = req[c].existing THEN SyncUpdated(f, req[c].in) ELSE f
                                : f \in files}
                 /\ resp' = [op |-> "sync", status |-> 200, result |-> "updated",
                             id |-> req[c].existing]
                 /\ UNCHANGED nextId
       ELSE IF ~dbOk
            THEN /\ resp' = [op |-> "sync", status |-> 500]
                 /\ UNCHANGED <<files, nextId>>
            ELSE /\ nextId <= MaxId
                 /\ files' = files \cup {SyncRow(req[c], nextId)}
                 /\ nextId' = nextId + 1
                 /\ resp' = [op |-> "sync", status |-> 200, result |-> "added", id |-> nextId]
    /\ UNCHANGED <<app, users, tokens, now, uuids>>

-----------------------------------------------------------------------------
(* POST /files/admin/cleanup-files *)

\* up to the select of every row; storage_path must be given
CleanupBegin(c, u, storage_path) ==
    /\ req[c] = Idle
    /\ Authenticated(u)
    /\ IF ~IsAdmin(u)
       THEN /\ resp' = [op |-> "cleanup", status |-> 403]
            /\ UNCHANGED req
       ELSE IF storage_path = ""
       THEN /\ resp' = [op |-> "cleanup", status |-> 422]
            /\ UNCHANGED req
       ELSE /\ req' = [req EXCEPT ![c] = [op |-> "cleanup", db_files |-> files]]
            /\ UNCHANGED resp
    /\ UNCHANGED <<app, users, tokens, now, files, nextId, store, uuids>>

\* (mutant) the existence test inverted: the rows whose file exists
MissingInverted(st, db_files) == {f \in db_files : Exists(st, f.path)}

\* the rows cleanup_files deletes: those whose file does not exist
Missing(st, db_files) == {f \in db_files : ~Exists(st, f.path)}

\* the table after the commit of cleanup_files: the rows found missing
\* deleted by primary key
CleanupKept(fs, st, db_files) == {f \in fs : f.id \notin {d.id : d \in Missing(st, db_files)}}

\* the deletes by primary key, one commit
CleanupFinish(c, dbOk) ==
    /\ req[c].op = "cleanup"
    /\ req' = [req EXCEPT ![c] = Idle]
    /\ IF ~dbOk
       THEN /\ resp' = [op |-> "cleanup", status |-> 500]
            /\ UNCHANGED files
       ELSE /\ files' = CleanupKept(files, store, req[c].db_files)
            /\ resp' = [op |-> "cleanup", status |-> 200,
                        deleted |-> Cardinality(Missing(store, req[c].db_files))]
    /\ UNCHANGED <<app, users, tokens, now, nextId, store, uuids>>

-----------------------------------------------------------------------------
(* POST /files/admin/import-file *)

\* up to the select: a path that has a row is skipped
ImportBegin(c, u, path, filename, blob) ==
    /\ req[c] = Idle
    /\ Authenticated(u)
    /\ IF ~IsAdmin(u)
       THEN /\ resp' = [op |-> "import", status |-> 403]
            /\ UNCHANGED req
       ELSE IF RowsWithPath(files, path) # {}
       THEN /\ resp' = [op |-> "import", status |-> 200, result |-> "skipped"]
            /\ UNCHANGED req
       ELSE /\ req' = [req EXCEPT ![c] = [op |-> "import", path |-> path,
                                          filename |-> filename, blob |-> blob,
                                          owner |-> users[u].id]]
            /\ UNCHANGED resp
    /\ UNCHANGED <<app, users, tokens, now, files, nextId, store, uuids>>

\* the blob written, the row with the size, mtime and hash of the written file
ImportFinish(c, dbOk) ==
    /\ req[c].op = "import"
    /\ req' = [req EXCEPT ![c] = Idle]
    /\ store' = [store EXCEPT ![req[c].path] = [content |-> req[c].blob, mtime |-> now]]
    /\ IF ~dbOk
       THEN /\ resp' = [op |-> "import", status |-> 500]
            /\ UNCHANGED <<files, nextId>>
       ELSE /\ nextId <= MaxId
            /\ files' = files \cup
                   {FileRow(nextId, req[c].filename, req[c].path, BlobSize(req[c].blob), now,
                            req[c].owner, md5hex(req[c].blob))}
            /\ nextId' = nextId + 1
            /\ resp' = [op |-> "import", status |-> 200, result |-> "imported", id |-> nextId]
    /\ UNCHANGED <<app, users, tokens, now, uuids>>

-----------------------------------------------------------------------------
(* GET /files/admin/file-hashes and GET /files/admin/storage-stats *)

\* {file.path: file.hash for file in files if file.hash}: one hash per path,
\* the hash of the row of that path the select returned last
HashDicts(fs) ==
    LET hashed == {f \in fs : f.hash # ""}
    IN {h \in [CatalogPaths(hashed) -> {f.hash : f \in hashed}] :
          \A p \in CatalogPaths(hashed) : h[p] \in {f.hash : f \in RowsWithPath(hashed, p)}}

\* GET /files/admin/file-hashes
FileHashes(u) ==
    /\ Authenticated(u)
    /\ IF ~IsAdmin(u)
       THEN resp' = [op |-> "file_hashes", status |-> 403]
       ELSE \E h \in HashDicts(files) :
               resp' = [op |-> "file_hashes", status |-> 200, hashes |-> h]
    /\ UNCHANGED <<app, users, tokens, now, files, nextId, store, uuids, req>>

\* total_size: the sizes of the stored files added up
RECURSIVE TotalSize(_, _)
TotalSize(st, P) ==
    IF P = {} THEN 0
    ELSE LET p == CHOOSE q \in P : TRUE
         IN BlobSize(st[p].content) + TotalSize(st, P \ {p})

\* GET /files/admin/storage-stats
StorageStats(u) ==
    /\ Authenticated(u)
    /\ IF ~IsAdmin(u)
       THEN resp' = [op |-> "storage_stats", status |-> 403]
       ELSE resp' = [op |-> "storage_stats", status |-> 200,
                     total_files |-> Cardinality(StoredPaths(store)),
                     total_size |-> TotalSize(store, StoredPaths(store))]
    /\ UNCHANGED <<app, users, tokens, now, files, nextId, store, uuids, req>>

-----------------------------------------------------------------------------
(* Requests and specifications *)

\* what sync_file is called with: path, hash, size, modified, the bytes sent
\* and their display name; hash and size are the caller's word, not computed
SyncInputs ==
    {[path |-> p, hash |-> md5hex(h), size |-> BlobSize(z), modified |-> 0, blob |-> b,
      filename |-> "sync.bin"] : p \in {"a.txt"}, h \in SmallBlobs, z \in SmallBlobs,
                                  b \in SmallBlobs}

\* a sync_file request whose path climbs out of the storage directory
SyncInputsOutside ==
    {[path |-> p, hash |-> md5hex("abc"), size |-> BlobSize("abc"), modified |-> 0,
      blob |-> "abc", filename |-> "sync.bin"] : p \in OutsidePaths}

\* the same requests, their modified time one of two
SyncInputsDated ==
    {[in EXCEPT !.modified = m] : in \in SyncInputs, m \in {0, 3}}

\* the service with an administrator and a user registered and logged in at
\* minute 0: the state RegisterUser and Login lead to from Init
Seeded ==
    /\ app = Serving
    /\ users = [u \in Usernames |->
                  IF u = "root" THEN [id |-> 1, role |-> "admin", last_active |-> 0]
                  ELSE [id |-> 2, role |-> "user", last_active |-> 0]]
    /\ tokens = Usernames
    /\ now = 0
    /\ files = {}
    /\ nextId = 1
    /\ store = [p \in Paths |-> Absent]
    /\ uuids = 0
    /\ req = [c \in Clients |-> Idle]
    /\ resp = [op |-> "none", status |-> 0]

\* the seeded service on a host where a file lies next to the storage
\* directory
SeededOutside ==
    /\ app = Serving
    /\ users = [u \in Usernames |->
                  IF u = "root" THEN [id |-> 1, role |-> "admin", last_active |-> 0]
                  ELSE [id |-> 2, role |-> "user", last_active |-> 0]]
    /\ tokens = Usernames
    /\ now = 0
    /\ files = {}
    /\ nextId = 1
    /\ store = [p \in Paths |-> IF p \in OutsidePaths THEN [content |-> "xy", mtime |-> 0]
                                ELSE Absent]
    /\ uuids = 0
    /\ req = [c \in Clients |-> Idle]
    /\ resp = [op |-> "none", status |-> 0]

\* the service with one user registered and logged in and no administrator
SeededNoAdmin ==
    /\ app = Serving
    /\ users = [u \in Usernames |->
                  IF u = "bob" THEN [id |-> 1, role |-> "user", last_active |-> 0] ELSE NoUser]
    /\ tokens = {"bob"}
    /\ now = 0
    /\ files = {}
    /\ nextId = 1
    /\ store = [p \in Paths |-> Absent]
    /\ uuids = 0
    /\ req = [c \in Clients |-> Idle]
    /\ resp = [op |-> "none", status |-> 0]

AuthStep(U) ==
    \/ \E u \in U, role \in Roles, secretOk \in BOOLEAN : RegisterUser(u, role, secretOk)
    \/ \E u \in U, passwordOk \in BOOLEAN : Login(u, passwordOk)
    \/ \E u, target \in U, newRole \in Roles : ChangeRole(u, target, newRole)

StorageStep(P, B) ==
    \/ \E p \in P, b \in B : ExtPut(p, b)
    \/ \E p \in P : ExtDelete(p)

ListStep(U, Skips, Limits) ==
    \E u \in U, skip \in Skips, limit \in Limits : ListFiles(u, skip, limit)

\* the identifiers download is called with: the temporary ids the listing
\* hands out, catalog ids, and one that is neither
FileIds == {generate_file_id(p) : p \in StoragePaths} \cup {"1", "2", "x"}

DownloadStep(U) ==
    \E u \in U, file_id \in FileIds : DownloadFile(u, file_id)

\* the identifier lists download-multiple is called with: temporary ids in
\* the shape download accepts and in the shape the listing hands out, a
\* catalog id and a malformed one, up to two of them
ArchiveIds == {"temp_a.txt", generate_file_id("a.txt"), "1", "x"}
ArchiveLists == {<<>>} \cup {<<a>> : a \in ArchiveIds} \cup {<<a, b>> : a, b \in ArchiveIds}

ArchiveStepWith(U, L) ==
    \E u \in U, file_ids \in L : DownloadMultiple(u, file_ids)

ArchiveStep(U) == ArchiveStepWith(U, ArchiveLists)

RegisterStep(C, U, P, F, D) ==
    \/ \E c \in C, u \in U, p \in P, fn \in F : RegisterBegin(c, u, p, fn)
    \/ \E c \in C, dbOk \in D : RegisterFinish(c, dbOk)

RegisterAllStep(C, U, D) ==
    \/ \E c \in C, u \in U : RegisterAllBegin(c, u)
    \/ \E c \in C, dbOk \in D : RegisterAllFinish(c, dbOk)

SyncStepWith(C, U, D, I) ==
    \/ \E c \in C, u \in U, in \in I : SyncBegin(c, u, in)
    \/ \E c \in C, dbOk \in D : SyncFinish(c, dbOk)

SyncStep(C, U, D) == SyncStepWith(C, U, D, SyncInputs)

CleanupStep(C, U, D) ==
    \/ \E c \in C, u \in U, sp \in {"", "storage"} : CleanupBegin(c, u, sp)
    \/ \E c \in C, dbOk \in D : CleanupFinish(c, dbOk)

ImportStepWith(C, U, D, P) ==
    \/ \E c \in C, u \in U, p \in P, b \in SmallBlobs :
          ImportBegin(c, u, p, "import.bin", b)
    \/ \E c \in C, dbOk \in D : ImportFinish(c, dbOk)

ImportStep(C, U, D) == ImportStepWith(C, U, D, {"a.txt"})

AdminReadStep(U) ==
    \/ \E u \in U : FileHashes(u)
    \/ \E u \in U : StorageStats(u)

UploadStep(U, D) ==
    \E u \in U, b \in {"abc", BigBlob, MaxBlob}, dbOk \in D :
        UploadFile(u, "report.txt", b, dbOk)

\* every request, any client, from the empty service
Next ==
    \/ AuthStep(Usernames)
    \/ Tick
    \/ StorageStep(StoragePaths, SmallBlobs)
    \/ ListStep(Usernames, 0..1, {1, 10})
    \/ DownloadStep(Usernames)
    \/ ArchiveStep(Usernames)
    \/ RegisterStep(Clients, Usernames, StoragePaths, {"", "named.txt"}, BOOLEAN)
    \/ RegisterAllStep(Clients, Usernames, BOOLEAN)
    \/ SyncStep(Clients, Usernames, BOOLEAN)
    \/ CleanupStep(Clients, Usernames, BOOLEAN)
    \/ ImportStep(Clients, Usernames, BOOLEAN)
    \/ UploadStep(Usernames, BOOLEAN)
    \/ AdminReadStep(Usernames)

Spec == Init /\ [][Next]_vars

\* two clients racing through the handlers that add rows for a.txt, every
\* commit reaching the database
NextRace ==
    \/ StorageStep({"a.txt"}, {"abc"})
    \/ RegisterStep(Clients, {"bob"}, {"a.txt"}, {"", "named.txt"}, {TRUE})
    \/ RegisterAllStep(Clients, {"root"}, {TRUE})
    \/ ImportStep(Clients, {"root"}, {TRUE})

SpecRace == Seeded /\ [][NextRace]_vars

\* listing and download over a storage directory that changes by hand, with
\* and without an active administrator
NextList ==
    \/ StorageStep(StoragePaths, {"abc"})
    \/ RegisterStep(Clients, {"bob"}, {"a.txt", "a5e54d1f"}, {""}, BOOLEAN)
    \/ ListStep({"bob"}, {0}, {10})
    \/ DownloadStep({"bob"})

SpecList == (Seeded \/ SeededNoAdmin) /\ [][NextList]_vars

\* the administrator's account, the clock and the listing
NextGate ==
    \/ AuthStep({"root"})
    \/ Tick
    \/ \E b \in {"abc"} : ExtPut("a.txt", b)
    \/ ListStep({"root"}, {0}, {10})

SpecGate == Init /\ [][NextGate]_vars

\* the reconciliation handlers, two clients, over a storage directory that
\* changes by hand
NextReconcile ==
    \/ StorageStep({"a.txt", "docs/c.txt"}, {"abc"})
    \/ RegisterAllStep(Clients, Usernames, BOOLEAN)
    \/ CleanupStep(Clients, Usernames, BOOLEAN)

SpecReconcile == Seeded /\ [][NextReconcile]_vars

\* sync_file, two clients
NextSync ==
    \/ StorageStep({"a.txt"}, SmallBlobs)
    \/ SyncStep(Clients, Usernames, BOOLEAN)

SpecSync == Seeded /\ [][NextSync]_vars

\* uploads
NextUpload ==
    \/ UploadStep(Usernames, BOOLEAN)
    \/ StorageStep(UuidPaths, {"xy"})

SpecUpload == Seeded /\ [][NextUpload]_vars

\* the archive builder over a catalog and a storage directory that change
NextArchive ==
    \/ StorageStep({"a.txt", "a5e54d1f"}, {"abc"})
    \/ RegisterStep({1}, {"bob"}, {"a.txt"}, {""}, {TRUE})
    \/ DownloadStep({"bob"})
    \/ ArchiveStep({"bob"})

SpecArchive == Seeded /\ [][NextArchive]_vars

\* the administrator-only handlers, one client, while roles are changed
NextRoles ==
    \/ \E u, target \in Usernames, newRole \in Roles : ChangeRole(u, target, newRole)
    \/ \E b \in {"abc"} : ExtPut("a.txt", b)
    \/ RegisterAllStep({1}, Usernames, {TRUE})
    \/ SyncStep({1}, Usernames, {TRUE})
    \/ CleanupStep({1}, Usernames, {TRUE})
    \/ ImportStep({1}, Usernames, {TRUE})
    \/ AdminReadStep(Usernames)

SpecRoles == Seeded /\ [][NextRoles]_vars

\* paginated listings of files of different ages, the gate open and closed;
\* list_files accepts every skip >= 0 and every limit <= 100
NextPage ==
    \/ Tick
    \/ StorageStep({"a.txt", "docs/c.txt"}, {"abc"})
    \/ RegisterStep({1}, {"bob"}, {"a.txt"}, {""}, {TRUE})
    \/ ListStep({"bob"}, 0..1, -1..2)

SpecPage == Seeded /\ [][NextPage]_vars

\* sync_file called again and again for one path with other hashes, sizes,
\* bytes and modified times, the clock running, the file removed by hand
NextSyncUpdate ==
    \/ Tick
    \/ \E p \in {"a.txt"} : ExtDelete(p)
    \/ SyncStepWith({1}, {"root"}, BOOLEAN, SyncInputsDated)

SpecSyncUpdate == Seeded /\ [][NextSyncUpdate]_vars

\* the handlers that write both the storage directory and the table, one
\* client, every commit free to fail
NextFailure ==
    \/ StorageStep({"a.txt"}, {"abc"})
    \/ RegisterStep({1}, {"bob"}, {"a.txt"}, {""}, BOOLEAN)
    \/ SyncStep({1}, {"root"}, BOOLEAN)
    \/ CleanupStep({1}, {"root"}, BOOLEAN)
    \/ ImportStep({1}, {"root"}, BOOLEAN)

SpecFailure == Seeded /\ [][NextFailure]_vars

\* register_file, two clients, every commit free to fail, over files that
\* come and go
NextRegister ==
    \/ StorageStep({"a.txt", "docs/c.txt"}, {"abc"})
    \/ RegisterStep(Clients, {"bob"}, {"a.txt", "docs/c.txt"}, {"", "named.txt"}, BOOLEAN)

SpecRegister == Seeded /\ [][NextRegister]_vars

\* listings over a catalog whose files are removed by hand, with and
\* without an active administrator
NextDrift ==
    \/ StorageStep({"a.txt", "docs/c.txt"}, {"abc"})
    \/ RegisterStep({1}, {"bob"}, {"a.txt", "docs/c.txt"}, {""}, {TRUE})
    \/ ListStep({"bob"}, {0}, {10})

SpecDrift == (Seeded \/ SeededNoAdmin) /\ [][NextDrift]_vars

\* the administrator logging in and working while the clock runs
NextHeartbeat ==
    \/ Tick
    \/ Login("root", TRUE)
    \/ \E b \in {"abc"} : ExtPut("a.txt", b)
    \/ RegisterAllStep({1}, {"root"}, {TRUE})
    \/ SyncStep({1}, {"root"}, {TRUE})
    \/ CleanupStep({1}, {"root"}, {TRUE})
    \/ ImportStep({1}, {"root"}, {TRUE})

SpecHeartbeat == Seeded /\ [][NextHeartbeat]_vars

\* the ways the startup can go, then the requests a started service takes
NextBoot ==
    \/ \E dbUp \in BOOLEAN, ping \in {"pong", "none", "error"} : Lifespan(dbUp, ping)
    \/ /\ app.state = "running"
       /\ \/ AuthStep({"root"})
          \/ \E b \in {"abc"} : ExtPut("a.txt", b)
          \/ RegisterStep({1}, {"root"}, {"a.txt"}, {""}, {TRUE})
          \/ ListStep({"root"}, {0}, {10})
          \/ DownloadStep({"root"})

SpecBoot == Deployed /\ [][NextBoot]_vars

\* requests whose path or identifier climbs out of the storage directory,
\* next to the same requests for a file inside it
NextEscape ==
    \/ StorageStep({"a.txt"}, {"abc"})
    \/ RegisterStep({1}, {"bob"}, {"a.txt"} \cup OutsidePaths, {""}, {TRUE})
    \/ RegisterAllStep({1}, {"root"}, {TRUE})
    \/ CleanupStep({1}, {"root"}, {TRUE})
    \/ DownloadStep({"bob"})
    \/ ArchiveStepWith({"bob"}, {<<"temp_" \o p>> : p \in {"a.txt"} \cup OutsidePaths})
    \/ SyncStepWith({1}, {"root"}, {TRUE}, SyncInputsOutside)
    \/ ImportStepWith({1}, {"root"}, {TRUE}, OutsidePaths)

SpecEscape == SeededOutside /\ [][NextEscape]_vars

-----------------------------------------------------------------------------
(* Properties *)

\* the step in which client c's pending request of kind op is answered
Answers(c, op) == req[c].op = op /\ req'[c] = Idle

\* C1: in every reachable state at most one row of the files table has any
\* given path.
C1_PathUnique ==
    \A f, g \in files : f.path = g.path => f = g

\* C2: a register request that commits after a row for its path has been
\* committed (the loser of the race) is answered with a 4xx conflict and
\* adds no row, so the table ends with one row for the path.
C2_LoserGetsConflict ==
    [][\A c \in Clients :
          (/\ Answers(c, "register")
           /\ Exists(store, req[c].path)
           /\ RowsWithPath(files, req[c].path) # {})
             => /\ resp'.status \in 400..499
                /\ files' = files]_vars

\* the merged view list_files computes in the current state, before sorting
\* and pagination, for a walk order and a row order
MergedView(walk, rows) ==
    UniqueFiles(AllFiles(is_admin_active(users, now), store, walk, rows))

\* the positions of the view that hold an entry for path P
EntriesFor(view, P) == {i \in 1..Len(view) : view[i].path = P}

\* the step in which a listing is answered
ListAnswered ==
    /\ resp'.op = "list"
    /\ UNCHANGED <<app, users, tokens, now, files, nextId, store, uuids, req>>
    /\ \E walk \in Orderings(StoredPaths(store)), rows \in Orderings(files) :
          resp' = ListBody(users, rows, store, now, walk, resp'.skip, resp'.limit)

\* C3: for every path P that has a row and whose file exists, the merged
\* view holds exactly one entry for P, and it is the catalog-backed one
\* (source database, id of a row of P), with the admin gate open or closed.
C3_CatalogEntryWins ==
    \A walk \in Orderings(StoredPaths(store)), rows \in Orderings(files) :
        \A P \in CatalogPaths(files) :
            Exists(store, P) =>
                /\ Cardinality(EntriesFor(MergedView(walk, rows), P)) = 1
                /\ \A i \in EntriesFor(MergedView(walk, rows), P) :
                      /\ MergedView(walk, rows)[i].source = "database"
                      /\ MergedView(walk, rows)[i].id \in {f.id : f \in RowsWithPath(files, P)}

\* a listing answered with the gate open that shows a catalog-backed entry
\* for a file the walk of the storage directory also produced
C3_Witness ==
    /\ resp.op = "list"
    /\ resp.admin_active
    /\ \E i \in 1..Len(resp.items) : resp.items[i].source = "database"

\* C4: while the admin gate is open, every stored path P without a row has
\* exactly one entry in the merged view, storage-sourced, whose id is
\* generate_file_id(P), a value that depends on P alone.
C4_StorageOnlyTempId ==
    is_admin_active(users, now) =>
        \A walk \in Orderings(StoredPaths(store)), rows \in Orderings(files) :
            \A P \in StoredPaths(store) \ CatalogPaths(files) :
                /\ Cardinality(EntriesFor(MergedView(walk, rows), P)) = 1
                /\ \A i \in EntriesFor(MergedView(walk, rows), P) :
                      /\ MergedView(walk, rows)[i].source = "storage"
                      /\ MergedView(walk, rows)[i].id = generate_file_id(P)

\* a listing answered with a storage-only entry carrying its temporary id
C4_Witness ==
    /\ resp.op = "list"
    /\ resp.admin_active
    /\ \E i \in 1..Len(resp.items) :
          /\ resp.items[i].source = "storage"
          /\ resp.items[i].id = generate_file_id(resp.items[i].path)
          /\ resp.items[i].path \notin CatalogPaths(files)

\* C5: a listing answered while the gate is closed reports admin_active
\* false and returns catalog-backed items only; and once an administrator
\* has logged in, a listing at any minute of the following activity window
\* reports admin_active true and holds every stored file that has no row.
C5_GateHidesAndLoginShows ==
    [][/\ (ListAnswered /\ ~is_admin_active(users, now)) =>
              /\ ~resp'.admin_active
              /\ \A i \in 1..Len(resp'.items) : resp'.items[i].source = "database"
       /\ \A u \in Usernames :
             (Login(u, TRUE) /\ UserExists(u) /\ IsAdmin(u)) =>
                 \A d \in 0..ADMIN_ACTIVITY_TIMEOUT :
                   \A walk \in Orderings(StoredPaths(store')), rows \in Orderings(files') :
                     LET body == ListBody(users', rows, store', now' + d, walk, 0, 100)
                     IN /\ body.admin_active
                        /\ \A P \in StoredPaths(store') \ CatalogPaths(files') :
                              \E i \in 1..Len(body.items) :
                                 /\ body.items[i].path = P
                                 /\ body.items[i].source = "storage"]_vars

\* a listing that shows a storage-only file after the administrator logged
\* in again, the window opened by an earlier login having run out
C5_Witness ==
    /\ resp.op = "list"
    /\ resp.admin_active
    /\ \E i \in 1..Len(resp.items) : resp.items[i].source = "storage"
    /\ \E u \in Usernames : IsAdmin(u) /\ users[u].last_active > ADMIN_ACTIVITY_TIMEOUT

\* C6: when the last listing reported a storage-only file P under the
\* temporary id T and P is still a stored file without a row, download(T)
\* is answered with the bytes of P.
C6_TempIdDownloadsFile ==
    [][resp.op = "list" =>
          \A i \in 1..Len(resp.items) :
              (/\ resp.items[i].source = "storage"
               /\ Exists(store, resp.items[i].path)
               /\ resp.items[i].path \notin CatalogPaths(files)
               /\ \E u \in Usernames : DownloadFile(u, resp.items[i].id))
                 => /\ resp'.status = 200
                    /\ resp'.served = resp.items[i].path
                    /\ resp'.content = store[resp.items[i].path].content]_vars

\* C7: a register_all that commits with nothing committed since its select
\* adds exactly one row for each stored file that had no row and reports
\* their number; a second run on the state it leaves finds no unregistered
\* file, whatever the order of its walk, so it adds nothing.
C7_RegisterAllIdempotent ==
    [][\A c \in Clients :
          (/\ Answers(c, "register_all")
           /\ resp'.status = 200
           /\ req[c].registered = CatalogPaths(files))
             => /\ files \subseteq files'
                /\ {f.path : f \in files' \ files} = StoredPaths(store) \ CatalogPaths(files)
                /\ Cardinality(files' \ files) = Cardinality(StoredPaths(store) \ CatalogPaths(files))
                /\ resp'.count = Cardinality(files' \ files)
                /\ \A walk \in Orderings(StoredPaths(store')) :
                      /\ Len(Unregistered(CatalogPaths(files'), walk)) = 0
                      /\ files' \cup NewRows(store', Unregistered(CatalogPaths(files'), walk),
                                            req[c].owner, nextId') = files']_vars

\* a register_all answered "0 new files" while every stored file has a row
C7_Witness ==
    /\ resp.op = "register_all"
    /\ resp.status = 200
    /\ resp.count = 0
    /\ StoredPaths(store) # {}
    /\ StoredPaths(store) \subseteq CatalogPaths(files)

\* C8: a sync_one answered added for a path that had no row has written the
\* blob once and inserted one row, and the same (path, hash, size) sent
\* again meets that row and is decided skipped; a sync answered skipped
\* changes neither the storage directory nor the table.
C8_SyncAddedThenSkipped ==
    [][/\ \A c \in Clients :
             (/\ Answers(c, "sync")
              /\ resp'.status = 200
              /\ resp'.result = "added"
              /\ RowsWithPath(files, req[c].in.path) = {})
                => /\ store' = [store EXCEPT ![req[c].in.path] =
                                   [content |-> req[c].in.blob, mtime |-> now]]
                   /\ files \subseteq files'
                   /\ Cardinality(files' \ files) = 1
                   /\ \A existing_file \in FirstWithPath(files', req[c].in.path) :
                         SyncDecision(existing_file, req[c].in.hash, req[c].in.size) = "skipped"
       /\ (resp' # resp /\ resp'.op = "sync" /\ resp'.status = 200 /\ resp'.result = "skipped")
             => UNCHANGED <<files, store>>]_vars

\* a sync answered skipped for the row an earlier sync added
C8_Witness ==
    /\ resp.op = "sync"
    /\ resp.status = 200
    /\ resp.result = "skipped"
    /\ \E f \in files : f.id = resp.id /\ f.filename = "sync.bin" /\ Exists(store, f.path)

\* C9: a cleanup that commits with nothing committed since its select
\* deletes exactly the rows whose path is not a stored file, reports their
\* number and leaves the storage directory as it was.
C9_CleanupDeletesMissing ==
    [][\A c \in Clients :
          (/\ Answers(c, "cleanup")
           /\ resp'.status = 200
           /\ req[c].db_files = files)
             => /\ files' = {f \in files : Exists(store, f.path)}
                /\ resp'.deleted = Cardinality(files \ files')
                /\ store' = store]_vars

\* a cleanup that deleted a row and kept another
C9_Witness ==
    /\ resp.op = "cleanup"
    /\ resp.status = 200
    /\ resp.deleted >= 1
    /\ files # {}
    /\ \E p \in Paths : ~Exists(store, p) /\ p \notin CatalogPaths(files)

\* C10: an upload of more than MAX_FILE_SIZE bytes is answered 413 and
\* leaves the storage directory and the table as they were; no stored file
\* and no row is ever larger than MAX_FILE_SIZE.
C10_OversizedUploadRefused ==
    [][/\ \A u \in Usernames, b \in Blobs, dbOk \in BOOLEAN :
             (UploadFile(u, "report.txt", b, dbOk) /\ BlobSize(b) > MAX_FILE_SIZE)
                => /\ resp'.status = 413
                   /\ UNCHANGED <<store, files, nextId, uuids>>
       /\ \A p \in Paths : Exists(store', p) => BlobSize(store'[p].content) <= MAX_FILE_SIZE
       /\ \A f \in files' : f.size <= MAX_FILE_SIZE]_vars

\* an upload refused for its size, after one that was stored
C10_Witness ==
    /\ resp.op = "upload"
    /\ resp.status = 413
    /\ files # {}

\* C11: a download of a catalog id whose row exists while its file is
\* missing from the storage directory is answered with an error that is not
\* the one the same request gets when no row has that id, nor the one a
\* temporary id without a file gets; it changes nothing.
C11_DriftDistinctFromNotFound ==
    [][\A u \in Usernames, file_id \in FileIds :
          (/\ DownloadFile(u, file_id)
           /\ IsDigits(file_id)
           /\ RowsWithId(files, ParseInt(file_id)) # {}
           /\ \A f \in RowsWithId(files, ParseInt(file_id)) : ~Exists(store, f.path))
             => /\ resp'.status \in 400..499
                /\ resp' # DownloadBody(files \ RowsWithId(files, ParseInt(file_id)), store,
                                        file_id)
                /\ \A f \in RowsWithId(files, ParseInt(file_id)) :
                      resp' # DownloadBody(files, store, "temp_" \o f.path)
                /\ UNCHANGED <<files, store>>]_vars

\* a download answered "missing in storage" for a row whose file was removed
C11_Witness ==
    /\ resp.op = "download"
    /\ resp = MissingInStorage
    /\ \E f \in files : ~Exists(store, f.path)

\* C12: download-multiple always produces the archive, and the archive holds
\* one entry for each identifier of the list that download would serve, the
\* entry being the file download would serve for it.
C12_ArchiveNeverFails ==
    [][\A u \in Usernames, file_ids \in ArchiveLists :
          DownloadMultiple(u, file_ids) =>
             LET served == SelectSeq(file_ids,
                              LAMBDA a : DownloadBody(files, store, a).status = 200)
             IN /\ resp'.status = 200
                /\ Len(resp'.entries) = Len(served)
                /\ \A i \in 1..Len(served) :
                      resp'.entries[i].path = DownloadBody(files, store, served[i]).served]_vars

\* C13: is_admin_active is false in every state where each administrator
\* either has never logged in or logged in for the last time more than
\* ADMIN_ACTIVITY_TIMEOUT minutes ago.  (A user is in tokens from the first
\* successful login on, and from then on last_active is the minute of the
\* last one.)
C13_InactiveWithoutLogin ==
    (\A u \in Usernames :
        (UserExists(u) /\ IsAdmin(u)) =>
            \/ u \notin tokens
            \/ users[u].last_active < now - ADMIN_ACTIVITY_TIMEOUT)
      => ~is_admin_active(users, now)

\* C14: a register request for a path that is not a stored file is answered
\* 404 (not found), and one for a stored path that has a row is answered 400
\* (conflict), both leaving the table and the storage directory as they
\* were; a register request answered 200 has added exactly one row, for its
\* path, owned by the caller, with the size and hash of the live file, and has
\* left every other row and the storage directory alone.
C14_RegisterOutcomes ==
    [][/\ \A c \in Clients, u \in Usernames, p \in Paths, fn \in {"", "named.txt"} :
             RegisterBegin(c, u, p, fn) =>
                /\ UNCHANGED <<files, store>>
                /\ ~Exists(store, p) => resp'.status = 404
                /\ (Exists(store, p) /\ RowsWithPath(files, p) # {}) => resp'.status = 400
       /\ \A c \in Clients :
             (Answers(c, "register") /\ resp'.status = 200)
                => /\ files \subseteq files'
                   /\ store' = store
                   /\ Cardinality(files' \ files) = 1
                   /\ \A f \in files' \ files :
                         /\ f.path = req[c].path
                         /\ f.owner_id = req[c].owner
                         /\ f.owner_id \in {users[u].id : u \in tokens}
                         /\ f.id = resp'.id
                         /\ f.size = BlobSize(store[f.path].content)
                         /\ f.hash = md5hex(store[f.path].content)
       /\ \A c \in Clients :
             (Answers(c, "register") /\ resp'.status # 200) => UNCHANGED <<files, store>>]_vars

\* a register refused as a conflict for the path an earlier one registered
\* to its caller
C14_Witness ==
    /\ resp.op = "register"
    /\ resp.status = 400
    /\ \E f \in files : f.owner_id = users["bob"].id /\ Exists(store, f.path)

\* C15: an upload whose commit fails after the blob was written is answered
\* 500 with no record in the response, adds no row (the table has no row for
\* the generated storage name) and leaves the written blob in the storage
\* directory.
C15_FailedUploadLeavesNoRow ==
    [][\A u \in Usernames, b \in Blobs :
          (UploadFile(u, "report.txt", b, FALSE) /\ ~TooLarge(b))
             => LET unique_name == UuidStems[uuids + 1] \o Suffix("report.txt")
                IN /\ resp'.status = 500
                   /\ DOMAIN resp' = {"op", "status"}
                   /\ files' = files
                   /\ RowsWithPath(files', unique_name) = {}
                   /\ Exists(store', unique_name)
                   /\ store'[unique_name].content = b]_vars

\* an upload answered 500 that left a blob without a row behind
C15_Witness ==
    /\ resp.op = "upload"
    /\ resp.status = 500
    /\ \E p \in UuidPaths : Exists(store, p) /\ p \notin CatalogPaths(files)

\* the requests a caller sends to the administrator-only handlers
AdminRequest(c, u) ==
    \/ RegisterAllBegin(c, u)
    \/ \E in \in SyncInputs : SyncBegin(c, u, in)
    \/ \E sp \in {"", "storage"} : CleanupBegin(c, u, sp)
    \/ \E b \in SmallBlobs : ImportBegin(c, u, "a.txt", "import.bin", b)
    \/ FileHashes(u)
    \/ StorageStats(u)

\* C16: a request to register-all, sync-file, cleanup-files, import-file,
\* file-hashes or storage-stats by a caller whose stored role is not admin
\* at that moment is answered 403 and changes neither the table nor the
\* storage directory, and no write of it is left pending; a caller whose
\* stored role is admin is not refused.  The role is the one change-role
\* stored last.
C16_NonAdminForbidden ==
    [][\A c \in Clients, u \in Usernames :
          AdminRequest(c, u) =>
             /\ users[u].role # "admin" =>
                   /\ resp'.status = 403
                   /\ UNCHANGED <<files, store, req, nextId>>
             /\ users[u].role = "admin" => (resp' = resp \/ resp'.status # 403)]_vars

\* an administrator-only request refused to the user who was the
\* administrator until change-role demoted it
C16_Witness ==
    /\ resp.op \in {"register_all", "sync", "cleanup", "import", "file_hashes", "storage_stats"}
    /\ resp.status = 403
    /\ users["root"].role = "user"
    /\ users["bob"].role = "admin"

\* C17: a register_all answered 200 reports a count equal to the number of
\* rows it added and, for each row it added, an entry with the row's path
\* and the id the row has in the table after the commit.
C17_RegisterAllReportsIds ==
    [][\A c \in Clients :
          (Answers(c, "register_all") /\ resp'.status = 200)
             => /\ resp'.count = Cardinality(files' \ files)
                /\ Len(resp'.files) = resp'.count
                /\ \A f \in files' \ files :
                      \E i \in 1..Len(resp'.files) :
                         /\ resp'.files[i].path = f.path
                         /\ resp'.files[i].id = f.id]_vars

\* the elements of seq at the positions skip .. skip+limit-1, counted from 0
Window(seq, skip, limit) ==
    LET last == IF skip + limit < Len(seq) THEN skip + limit ELSE Len(seq)
    IN [i \in 1..(IF last > skip THEN last - skip ELSE 0) |-> seq[skip + i]]

\* the step in which list(skip, limit) is answered
ListAnsweredWith(skip, limit) ==
    /\ resp'.op = "list"
    /\ resp'.skip = skip
    /\ resp'.limit = limit
    /\ UNCHANGED <<app, users, tokens, now, files, nextId, store, uuids, req>>

\* C18: a listing list(skip, limit) returns the elements at positions
\* skip .. skip+limit-1 of the merged view sorted by modified time, newest
\* first; total is the number of distinct paths of the merged view; has_more
\* is true exactly when skip + limit < total.
C18_PageOfSortedView ==
    [][\A skip \in 0..1, limit \in -1..2 :
          ListAnsweredWith(skip, limit) =>
             \E walk \in Orderings(StoredPaths(store)), rows \in Orderings(files) :
                LET view == MergedView(walk, rows)
                    sorted == SortedFiles(view)
                IN /\ \A i, j \in 1..Len(sorted) :
                         i < j => sorted[i].modified >= sorted[j].modified
                   /\ Len(resp'.items) = Len(Window(sorted, skip, limit))
                   /\ \A i \in 1..Len(resp'.items) :
                         /\ resp'.items[i].path = Window(sorted, skip, limit)[i].path
                         /\ resp'.items[i].source = Window(sorted, skip, limit)[i].source
                         /\ resp'.items[i].modified = Window(sorted, skip, limit)[i].modified
                   /\ resp'.total = Cardinality({view[i].path : i \in 1..Len(view)})
                   /\ resp'.has_more = (skip + limit < resp'.total)]_vars

\* C19: a sync_one for a path whose row differs from the supplied hash or
\* size is decided as an update of that row; answered updated, it has
\* written the supplied bytes over the blob, set the row's hash, size and
\* modified to the supplied values, returned the row's id, and has neither
\* added nor removed a row nor touched another one.
C19_SyncUpdates ==
    [][\A c \in Clients :
          /\ \A u \in Usernames, in \in SyncInputsDated :
                (/\ SyncBegin(c, u, in)
                 /\ IsAdmin(u)
                 /\ RowsWithPath(files, in.path) # {}
                 /\ \A f \in RowsWithPath(files, in.path) :
                       f.hash # in.hash \/ f.size # in.size)
                   => /\ req'[c].op = "sync"
                      /\ req'[c].in = in
                      /\ req'[c].existing \in {f.id : f \in RowsWithPath(files, in.path)}
          /\ (Answers(c, "sync") /\ resp'.status = 200 /\ resp'.result = "updated")
                => /\ store' = [store EXCEPT ![req[c].in.path] =
                                   [content |-> req[c].in.blob, mtime |-> now]]
                   /\ resp'.id = req[c].existing
                   /\ {f.id : f \in files'} = {f.id : f \in files}
                   /\ Cardinality(files') = Cardinality(files)
                   /\ \A f \in files :
                         IF f.id = req[c].existing
                         THEN /\ f.path = req[c].in.path
                              /\ [f EXCEPT !.hash = req[c].in.hash, !.size = req[c].in.size,
                                           !.modified = req[c].in.modified] \in files'
                         ELSE f \in files']_vars

\* a sync answered updated that gave the row another hash and modified time
\* and the file other bytes
C19_Witness ==
    /\ resp.op = "sync"
    /\ resp.status = 200
    /\ resp.result = "updated"
    /\ \E f \in files :
          /\ f.id = resp.id
          /\ f.modified = 3
          /\ f.hash = md5hex("xy")
          /\ Exists(store, f.path)
          /\ store[f.path].content = "xy"
          /\ store[f.path].mtime > 0

\* C20: a sync_one, import, register or cleanup request that is answered
\* with a failure leaves the storage directory and the table as they were.
C20_FailureChangesNothing ==
    [][\A c \in Clients :
          (/\ \E op \in {"sync", "import", "register", "cleanup"} : Answers(c, op)
           /\ resp'.status >= 400)
             => UNCHANGED <<files, store>>]_vars

\* C21: a listing taken while some row's file is missing from the storage
\* directory is answered 200, holds no item for such a row, counts in total
\* only the paths that are stored files (all of them with the gate open,
\* those with a row with the gate closed), and leaves the table as it was.
C21_MissingFileNotListed ==
    [][ListAnsweredWith(0, 10) =>
          /\ resp'.status = 200
          /\ files' = files
          /\ \A f \in files :
                ~Exists(store, f.path) =>
                    \A i \in 1..Len(resp'.items) :
                       /\ resp'.items[i].path # f.path
                       /\ resp'.items[i].source = "database" => resp'.items[i].id # f.id
          /\ resp'.total =
                Cardinality(IF is_admin_active(users, now) THEN StoredPaths(store)
                            ELSE StoredPaths(store) \cap CatalogPaths(files))
          /\ Len(resp'.items) = resp'.total]_vars

\* a listing that shows one registered file while the file of another row
\* is missing
C21_Witness ==
    /\ resp.op = "list"
    /\ resp.total = 1
    /\ Cardinality(files) = 2
    /\ \E f \in files : ~Exists(store, f.path)
    /\ \E f \in files : Exists(store, f.path) /\ resp.items[1].path = f.path

\* C22: once an administrator's register_all, sync_one, cleanup or import
\* has been carried out, is_admin_active is true at every minute of the
\* following activity window, however old the administrator's last login.
C22_AdminActionIsHeartbeat ==
    [][\A c \in Clients :
          (/\ \E op \in {"register_all", "sync", "cleanup", "import"} : Answers(c, op)
           /\ resp'.status = 200)
             => \A d \in 0..ADMIN_ACTIVITY_TIMEOUT : is_admin_active(users', now' + d)]_vars

\* C23: a startup during which the database is reachable and the cache is
\* absent or unreachable (the ping raises, or is not answered) ends with the
\* application running, not failed.
C23_StartsWithoutCache ==
    [][\A ping \in {"none", "error"} :
          Lifespan(TRUE, ping) => app'.state = "running"]_vars

\* C24: when a sync_one for path P is answered 200, with added, updated or
\* skipped, P has a row in the table and is a stored file.
C24_SyncLeavesRowAndBlob ==
    [][\A c \in Clients :
          /\ (Answers(c, "sync") /\ resp'.status = 200)
                => /\ RowsWithPath(files', req[c].in.path) # {}
                   /\ Exists(store', req[c].in.path)
          /\ \A u \in Usernames, in \in SyncInputsDated :
                (SyncBegin(c, u, in) /\ IsAdmin(u) /\ req' = req)
                   => /\ resp'.result = "skipped"
                      /\ RowsWithPath(files', in.path) # {}
                      /\ Exists(store', in.path)]_vars

\* C25: in every reachable state, a register_all by the administrator
\* followed at once by a cleanup, both committing, leaves a table whose set
\* of paths is the set of the files of the storage directory, whatever the
\* order of the walk.
C25_RegisterAllThenCleanup ==
    \A walk \in Orderings(StoredPaths(store)) :
        LET registered == RegisterAllAdds(files, store,
                                          Unregistered(CatalogPaths(files), walk),
                                          users["root"].id, nextId)
            cleaned == CleanupKept(registered, store, registered)
        IN CatalogPaths(cleaned) = StoredPaths(store)

\* C26: no request writes a file outside the storage directory, and no
\* request reads one: a download and an archive serve files of the storage
\* directory only, and a row is only created for (after reading or writing)
\* a file of the storage directory.
C26_StaysUnderStorageRoot ==
    [][/\ \A p \in Paths : EscapesRoot(p) => store'[p] = store[p]
       /\ (resp'.op = "download" /\ resp'.status = 200) => ~EscapesRoot(resp'.served)
       /\ (resp'.op = "archive" /\ resp'.status = 200) =>
             \A i \in 1..Len(resp'.entries) : ~EscapesRoot(resp'.entries[i].path)
       /\ \A f \in files' \ files : ~EscapesRoot(f.path)]_vars

\* C27: every row a request has just created or updated, for a file that
\* exists, carries the size of the file's bytes and the MD5 digest of them.
C27_RowMatchesBlob ==
    [][\A f \in files' \ files :
          Exists(store', f.path) =>
             /\ f.size = BlobSize(store'[f.path].content)
             /\ f.hash = md5hex(store'[f.path].content)]_vars

\* C28: a listing list(skip, limit) returns at most max(limit, 0) items,
\* and has_more is false whenever the items returned reach the end of the
\* sorted merged view, i.e. no element at a position >= skip is left out.
C28_PageBounded ==
    [][\A skip \in 0..1, limit \in -1..2 :
          ListAnsweredWith(skip, limit) =>
             /\ Len(resp'.items) <= (IF limit > 0 THEN limit ELSE 0)
             /\ (skip + Len(resp'.items) >= resp'.total) => ~resp'.has_more]_vars

====
